---- MODULE Spec2Model ----
(***************************************************************************)
(* Model of the court-availability poller of coast-schedules.              *)
(*                                                                         *)
(* The in-memory / Discord variant (src/court_manager.py) is modelled as   *)
(* a state machine over the fields of CourtManager and the position of     *)
(* the coroutine CourtManager.run.  Times are whole minutes: a UTC instant *)
(* is the number of minutes since 00:00 UTC of day 0, a naive local        *)
(* datetime the number of minutes since local midnight of day 0.  The      *)
(* modelled window lies inside daylight-saving time (US/Pacific = UTC-7).  *)
(***************************************************************************)
EXTENDS Integers, Sequences, FiniteSets, TLC

(***************************************************************************)
(* Bounds of the model.                                                    *)
(***************************************************************************)
\* number of distinct start times the availability API may report
NumRawTimes == 2
\* number of candidate timestamps handed directly to notify (SpecNotify)
NumGridTimes == 8
\* longest list of openings handed directly to notify (SpecNotify)
MaxOpenings == 4

(***************************************************************************)
(* Program constants.                                                      *)
(***************************************************************************)
INTERVAL_MINS == 15
INTERVAL == INTERVAL_MINS
\* "Indoor courts are the staffId - 2"
COURT_OFFSET == 2
\* "Filter out beach courts": courts kept are those below this index
BEACH_COURT_MIN == 8
\* US/Pacific during daylight-saving time is 7 hours behind UTC
PACIFIC_UTC_OFFSET == 420
\* site id, the first half of a staffId tag such as "255904:3"
MB_SITE_ID == 255904
\* output_str collapses a day with more ranges than this
MAX_LISTED_PERIODS == 2

MinutesPerDay == 24 * 60

(***************************************************************************)
(* Python values.                                                          *)
(***************************************************************************)
\* An optional dict: None, or a dict held as the sequence of its
\* <<key, value>> items in insertion order (keys are unique).
None == [present |-> FALSE, items |-> <<>>]
Dict(items) == [present |-> TRUE, items |-> items]

DictKeys(items) == {items[i][1] : i \in 1..Len(items)}

DictHas(items, k) == k \in DictKeys(items)

DictGet(items, k) == items[CHOOSE i \in 1..Len(items) : items[i][1] = k][2]

\* d[k] = v : an existing key keeps its position, a new key goes last
DictSet(items, k, v) ==
    IF DictHas(items, k)
    THEN [i \in 1..Len(items) |->
            IF items[i][1] = k THEN <<k, v>> ELSE items[i]]
    ELSE Append(items, <<k, v>>)

\* defaultdict(list): d[k].append(v)
DictAppend(items, k, v) ==
    IF DictHas(items, k)
    THEN DictSet(items, k, Append(DictGet(items, k), v))
    ELSE Append(items, <<k, <<v>>>>)

SeqElems(s) == {s[i] : i \in 1..Len(s)}

RECURSIVE InsertSorted(_, _)
InsertSorted(x, s) ==
    IF s = <<>> THEN <<x>>
    ELSE IF x <= Head(s) THEN <<x>> \o s
         ELSE <<Head(s)>> \o InsertSorted(x, Tail(s))

\* a list that keeps the order it was built in: the defect of a missing sort
sorted_missing(s) == s

\* sorted(s) for a list of datetimes
RECURSIVE sorted(_)
sorted(s) == IF s = <<>> THEN <<>> ELSE InsertSorted(Head(s), sorted(Tail(s)))

(***************************************************************************)
(* Time conversions.                                                       *)
(***************************************************************************)
\* utc_time.astimezone(PACIFIC_TIMEZONE), as a naive local datetime
astimezone(utc_time) == utc_time - PACIFIC_UTC_OFFSET

Hour24(dt) == (dt % MinutesPerDay) \div 60
Minute(dt) == dt % 60
\* %I : hour on the 12-hour clock, 12 for midnight and noon
Hour12(dt) == IF Hour24(dt) % 12 = 0 THEN 12 ELSE Hour24(dt) % 12
\* %p
AmPm(dt) == IF Hour24(dt) < 12 THEN "AM" ELSE "PM"

\* dt.strftime(TIMESTAMP_FORMAT): <<date, %I, %M, %p>>, seconds are always 00
strftime_TIMESTAMP(dt) == <<dt \div MinutesPerDay, Hour12(dt), Minute(dt), AmPm(dt)>>

\* datetime.strptime(s, TIMESTAMP_FORMAT)
strptime_TIMESTAMP(s) ==
    s[1] * MinutesPerDay
    + ((s[2] % 12) + (IF s[4] = "PM" THEN 12 ELSE 0)) * 60
    + s[3]

\* dt.strftime(DATE_FMT): the calendar day of dt
strftime_DATE(dt) == dt \div MinutesPerDay

\* time_fmt: x.strftime(TIME_FMT).lstrip("0"), e.g. <<9, 0, "AM">> for "9:00 AM"
time_fmt(x) == <<Hour12(x), Minute(x), AmPm(x)>>

(***************************************************************************)
(* parse_availabilities.                                                   *)
(***************************************************************************)
\* int(c.split(":")[1]) - 2 for a tag <<site, sub>>
CourtNum(c) == c[2] - COURT_OFFSET

\* a filter that lets the first beach court through
InScope_off_by_one(c) == c <= BEACH_COURT_MIN

InScope(c) == c < BEACH_COURT_MIN

AvailableCourts(staffIds) ==
    SelectSeq([i \in 1..Len(staffIds) |-> CourtNum(staffIds[i])], InScope)

\* The for loop of parse_availabilities over the startTimes still to be
\* read, with court_data as built so far.  A malformed entry raises and
\* leaves court_data as it is at that point.
RECURSIVE ParseLoop(_, _)
ParseLoop(availabilities, data) ==
    IF availabilities = <<>>
    THEN [raised |-> FALSE, court_data |-> Dict(data), rebound |-> TRUE]
    ELSE LET a == Head(availabilities)
             pt_time == strftime_TIMESTAMP(astimezone(a.startTime))
         IN  IF ~a.valid
             THEN [raised |-> TRUE, court_data |-> Dict(data), rebound |-> TRUE]
             ELSE ParseLoop(Tail(availabilities),
                            DictSet(data, pt_time, AvailableCourts(a.staffIds)))

\* a parse that empties the dict it has (clear) and fills that one again
parse_availabilities_in_place(body, old_court_data) ==
    IF body.kind # "ok"
    THEN [raised |-> TRUE, court_data |-> old_court_data, rebound |-> FALSE]
    ELSE [ParseLoop(body.startTimes, <<>>) EXCEPT !.rebound = FALSE]

\* parse_availabilities(res): the new court_data, whether it raised, and
\* whether self.court_data was bound to a new dict (line 278) so that the
\* writes of line 295 go to that one.  res.json() or the subscripts raise
\* before court_data is touched.
parse_availabilities(body, old_court_data) ==
    IF body.kind # "ok"
    THEN [raised |-> TRUE, court_data |-> old_court_data, rebound |-> FALSE]
    ELSE ParseLoop(body.startTimes, <<>>)

(***************************************************************************)
(* check_for_new_openings.                                                 *)
(***************************************************************************)
\* every court of the time reported again, the old ones are not taken out
NewCourts_all(courts, old_courts) == courts

NewCourts(courts, old_courts) ==
    SelectSeq(courts, LAMBDA c : c \notin SeqElems(old_courts))

RECURSIVE DiffLoop(_, _)
DiffLoop(items, old) ==
    IF items = <<>> THEN <<>>
    ELSE LET court_time == Head(items)[1]
             courts == Head(items)[2]
         IN  IF ~DictHas(old, court_time)
             THEN <<<<court_time, courts>>>> \o DiffLoop(Tail(items), old)
             ELSE LET new_courts == NewCourts(courts, DictGet(old, court_time))
                  IN  IF new_courts # <<>>
                      THEN <<<<court_time, new_courts>>>> \o DiffLoop(Tail(items), old)
                      ELSE DiffLoop(Tail(items), old)

\* the diff without the first-run guard: with no previous data every time is new
check_for_new_openings_unguarded(old, cur) == DiffLoop(cur.items, old.items)

\* the diff taken the wrong way round: what closed instead of what opened
check_for_new_openings_swapped(old, cur) ==
    IF ~old.present THEN <<>> ELSE DiffLoop(old.items, cur.items)

check_for_new_openings(old, cur) ==
    IF ~old.present THEN <<>> ELSE DiffLoop(cur.items, old.items)

(***************************************************************************)
(* notify: consolidation and message.                                      *)
(***************************************************************************)
RECURSIVE ConsolidateLoop(_, _)
ConsolidateLoop(rest, st) ==
    IF rest = <<>> THEN st
    ELSE LET current == Head(rest)
         IN  IF current - st.end = INTERVAL
             THEN ConsolidateLoop(Tail(rest), [st EXCEPT !.end = current])
             ELSE LET date_str == strftime_DATE(st.start)
                  IN  ConsolidateLoop(Tail(rest),
                        [result   |-> DictAppend(st.result, date_str,
                                                 <<st.start, st.end + INTERVAL>>),
                         start    |-> current,
                         end      |-> current,
                         date_str |-> date_str])

\* lines 190-208 of notify: the dict from day label to list of (start, end)
Consolidate(avail) ==
    LET datetimes == sorted([i \in 1..Len(avail) |-> strptime_TIMESTAMP(avail[i][1])])
        st == ConsolidateLoop(Tail(datetimes),
                [result   |-> <<>>,
                 start    |-> datetimes[1],
                 end      |-> datetimes[1],
                 date_str |-> strftime_DATE(datetimes[1])])
    IN  IF Len(datetimes) > 1
        THEN DictAppend(st.result, st.date_str, <<st.start, st.end + INTERVAL>>)
        ELSE st.result

\* a cap that already collapses a day with two ranges
day_fmt_cap_off_by_one(day, periods) ==
    IF Len(periods) >= MAX_LISTED_PERIODS
    THEN [day |-> day, lots |-> TRUE, times |-> <<>>]
    ELSE [day |-> day, lots |-> FALSE,
          times |-> [i \in 1..Len(periods) |->
                        <<time_fmt(periods[i][1]), time_fmt(periods[i][2])>>]]

\* day_fmt: one line of the message
day_fmt(day, periods) ==
    IF Len(periods) > MAX_LISTED_PERIODS
    THEN [day |-> day, lots |-> TRUE, times |-> <<>>]
    ELSE [day |-> day, lots |-> FALSE,
          times |-> [i \in 1..Len(periods) |->
                        <<time_fmt(periods[i][1]), time_fmt(periods[i][2])>>]]

\* output_str: the lines of the message, one per day of result
output_str(res) == [i \in 1..Len(res) |-> day_fmt(res[i][1], res[i][2])]

\* send(message): what a call can do, given publish_to_discord and whether
\* discord_client is set.  A failure is an exception raised to the caller.
SendOutcomes(publish, client) ==
    IF ~publish THEN {[delivery |-> "skipped", client |-> client]}
    ELSE {[delivery |-> "ok", client |-> TRUE],
          [delivery |-> "failed", client |-> TRUE]}
         \cup (IF client THEN {} ELSE {[delivery |-> "failed", client |-> FALSE]})

\* the message of line 212-215: the header and the lines of output_str
PrimaryMessage(lines) == [kind |-> "primary", lines |-> lines]

\* the message of line 226, the fixed text "New availabilities!!"
FallbackMessage == [kind |-> "fallback", lines |-> <<>>]

\* what reaches the sink in a call of send with outcome o: nothing when
\* publish_to_discord is off or the client could not be set up
SinkCalls(o, message) ==
    IF o.delivery = "skipped" \/ ~o.client THEN <<>>
    ELSE <<[message |-> message, delivered |-> o.delivery = "ok"]>>

(***************************************************************************)
(* LoginManager.                                                           *)
(***************************************************************************)
\* LoginManager.get_access_token of main.py: as the one below, but its
\* finally clause only quits the driver and self.driver keeps the object.
main_get_access_token(drv) ==
    IF drv = "None"
    THEN {[got |-> TRUE,  driver |-> "quit", session |-> "fresh"],
          [got |-> FALSE, driver |-> "quit", session |-> "fresh"],
          [got |-> FALSE, driver |-> "None", session |-> "none"]}
    ELSE {[got |-> FALSE, driver |-> "quit", session |-> "stale"]}

\* LoginManager.get_access_token of mindbody_manager.py, called with
\* self.driver = drv ("None", or "quit" for a driver object that was quit).
\* A call opens a browser when there is no driver (this may raise, and
\* then there is no session), runs the login steps on self.driver (they
\* return the token or raise; on a driver that was quit they raise), and
\* in its finally clause quits the driver and sets self.driver to None.
\* session is the browser session the login steps ran on.
get_access_token(drv) ==
    IF drv = "None"
    THEN {[got |-> TRUE,  driver |-> "None", session |-> "fresh"],
          [got |-> FALSE, driver |-> "None", session |-> "fresh"],
          [got |-> FALSE, driver |-> "None", session |-> "none"]}
    ELSE {[got |-> FALSE, driver |-> "None", session |-> "stale"]}

(***************************************************************************)
(* Inputs.                                                                 *)
(***************************************************************************)
\* start times the API reports: quarter hours from 06:45 UTC of day 1,
\* which is 11:45 PM Pacific of day 0
RawTimes == {30 * 60 + 45 + INTERVAL_MINS * i : i \in 0..(NumRawTimes - 1)}

Tag(sub) == <<MB_SITE_ID, sub>>

\* staffIds lists: indoor courts 1 and 2 (tags 3, 4), beach court 8 (tag 10)
StaffIdLists ==
    {<<Tag(3)>>, <<Tag(3), Tag(4)>>, <<Tag(10)>>, <<Tag(3), Tag(10)>>}

\* well-formed startTimes entries
RawSlots == [valid : {TRUE}, startTime : RawTimes, staffIds : StaffIdLists]

\* an entry without a parseable startTime
BadSlot == [valid |-> FALSE, startTime |-> 0, staffIds |-> <<>>]

\* lists of well-formed entries with distinct start times, in any order
RECURSIVE SlotSeqs(_)
SlotSeqs(times) ==
    {<<>>} \cup UNION {{<<s>> \o rest : rest \in SlotSeqs(times \ {s.startTime})}
                        : s \in {r \in RawSlots : r.startTime \in times}}

\* response bodies of a 2xx response
Bodies ==
    {[kind |-> "ok", startTimes |-> s] : s \in SlotSeqs(RawTimes)}
    \cup {[kind |-> "ok", startTimes |-> Append(s, BadSlot)] :
             s \in {t \in SlotSeqs(RawTimes) : Len(t) < NumRawTimes}}
    \cup {[kind |-> k, startTimes |-> <<>>] : k \in {"malformed_json", "bad_shape"}}

AuthStatuses == {400, 401}
OtherErrorStatuses == {403, 500}

(***************************************************************************)
(* State.                                                                  *)
(***************************************************************************)
VARIABLES
    pc,                  \* position of run
    access_token,        \* self.access_token: "None" or "token"
    publish_to_discord,  \* self.publish_to_discord
    discord_client,      \* whether self.discord_client is set
    court_data,          \* self.court_data
    old_data,            \* self.old_data
    new_availabilities,  \* the list returned by check_for_new_openings
    result,              \* notify's result, while notify runs
    msg,                 \* notify's msg, while notify runs
    last_status,         \* res.status_code of the latest request, 0 if it gave no response
    events,              \* what the current (or last finished) cycle did
    driver,              \* login_manager.driver: "None", or "quit" for a driver that was quit
    login_session,       \* the browser session the latest get_access_token ran on
    sent,                \* what notify handed to the sink in this cycle, until the commit
    file,                \* the snapshot file of the file-persisted variant (None: no file)
    same_mapping         \* whether old_data and court_data are one dict object

vars == <<pc, access_token, publish_to_discord, discord_client, court_data,
          old_data, new_availabilities, result, msg, last_status, events,
          driver, login_session, sent, file, same_mapping>>

Init ==
    /\ pc = "start"
    /\ access_token = "None"
    /\ publish_to_discord \in BOOLEAN
    /\ discord_client = FALSE
    /\ court_data = None
    /\ old_data = None
    /\ new_availabilities = <<>>
    /\ result = <<>>
    /\ msg = <<>>
    /\ last_status = 0
    /\ events = <<>>
    /\ driver = "None"
    /\ login_session = "none"
    /\ sent = <<>>
    /\ file = None
    /\ same_mapping = FALSE

(***************************************************************************)
(* run.                                                                    *)
(***************************************************************************)
\* lines 98-101: the first token; get_access_token returns or raises
Start ==
    /\ pc = "start"
    /\ \E o \in get_access_token(driver) :
         /\ driver' = o.driver
         /\ login_session' = o.session
         /\ IF o.got
            THEN /\ access_token' = "token"
                 /\ pc' = "greet"
                 /\ events' = <<"refresh">>
            ELSE /\ access_token' = access_token
                 /\ pc' = "crashed"
                 /\ events' = <<"refresh_error">>
    /\ UNCHANGED <<publish_to_discord, discord_client, court_data, old_data,
                   new_availabilities, result, msg, last_status, sent, file, same_mapping>>

\* line 103: await self.send("Checking for court openings...")
Greet ==
    /\ pc = "greet"
    /\ \E o \in SendOutcomes(publish_to_discord, discord_client) :
         /\ discord_client' = o.client
         /\ pc' = IF o.delivery = "failed" THEN "crashed" ELSE "request"
         /\ events' = Append(events, "greet_" \o o.delivery)
    /\ UNCHANGED <<access_token, publish_to_discord, court_data, old_data,
                   new_availabilities, result, msg, last_status,
                   driver, login_session, sent, file, same_mapping>>

\* a refresh that also forgets the previous snapshot
RequestAuthExpired_forgets ==
    /\ pc = "request"
    /\ \E s \in AuthStatuses : last_status' = s
    /\ access_token' = "token"
    /\ pc' = "request"
    /\ events' = <<"request", "refresh">>
    /\ old_data' = None
    /\ UNCHANGED <<publish_to_discord, discord_client, court_data,
                   new_availabilities, result, msg, driver, login_session, sent, file, same_mapping>>

\* lines 106-117, 120: status 400 or 401, refresh the token and continue
RequestAuthExpired ==
    /\ pc = "request"
    /\ \E s \in AuthStatuses : last_status' = s
    /\ \E o \in get_access_token(driver) :
         /\ driver' = o.driver
         /\ login_session' = o.session
         /\ IF o.got
            THEN /\ access_token' = "token"
                 /\ pc' = "request"
                 /\ events' = <<"request", "refresh">>
            ELSE /\ access_token' = access_token
                 /\ pc' = "crashed"
                 /\ events' = <<"request", "refresh_error">>
    /\ UNCHANGED <<publish_to_discord, discord_client, court_data, old_data,
                   new_availabilities, result, msg, sent, file, same_mapping>>

\* a run that refreshes the token on every error status
RequestHttpError_refreshes ==
    /\ pc = "request"
    /\ \E s \in OtherErrorStatuses : last_status' = s
    /\ \E o \in get_access_token(driver) :
         /\ driver' = o.driver
         /\ login_session' = o.session
         /\ IF o.got
            THEN /\ access_token' = "token"
                 /\ pc' = "request"
                 /\ events' = <<"request", "refresh">>
            ELSE /\ access_token' = access_token
                 /\ pc' = "crashed"
                 /\ events' = <<"request", "refresh_error">>
    /\ UNCHANGED <<publish_to_discord, discord_client, court_data, old_data,
                   new_availabilities, result, msg, sent, file, same_mapping>>

\* lines 106-114, 118-120: any other error status, log and continue
RequestHttpError ==
    /\ pc = "request"
    /\ \E s \in OtherErrorStatuses : last_status' = s
    /\ pc' = "request"
    /\ events' = <<"request", "http_error">>
    /\ UNCHANGED <<access_token, publish_to_discord, discord_client, court_data,
                   old_data, new_availabilities, result, msg,
                   driver, login_session, sent, file, same_mapping>>

\* lines 106-112, 121-123: the request itself raises, log and continue
RequestException ==
    /\ pc = "request"
    /\ pc' = "request"
    /\ events' = <<"request", "exception">>
    /\ last_status' = 0
    /\ UNCHANGED <<access_token, publish_to_discord, discord_client, court_data,
                   old_data, new_availabilities, result, msg,
                   driver, login_session, sent, file, same_mapping>>

\* lines 106-113, 125-127: a 2xx response, then parse_availabilities(res),
\* which is outside the try statement
RequestParse ==
    /\ pc = "request"
    /\ \E body \in Bodies :
         LET p == parse_availabilities(body, court_data)
         IN  /\ court_data' = p.court_data
             /\ pc' = IF p.raised THEN "crashed" ELSE "diff"
             /\ events' = <<"request", IF p.raised THEN "parse_error" ELSE "parse">>
             \* a write to a dict that old_data also names shows in old_data
             /\ old_data' = IF same_mapping /\ ~p.rebound THEN p.court_data ELSE old_data
             /\ same_mapping' = (same_mapping /\ ~p.rebound)
    /\ last_status' = 200
    /\ UNCHANGED <<access_token, publish_to_discord, discord_client,
                   new_availabilities, result, msg, driver, login_session, sent, file>>

\* line 130
CheckForNewOpenings ==
    /\ pc = "diff"
    /\ new_availabilities' = check_for_new_openings(old_data, court_data)
    /\ pc' = "notify"
    /\ events' = Append(events, "diff")
    /\ UNCHANGED <<access_token, publish_to_discord, discord_client, court_data,
                   old_data, result, msg, last_status,
                   driver, login_session, sent, file, same_mapping>>

\* a notify that sends its header whether or not there is an opening
NotifyPrepare_always_alerts ==
    /\ pc = "notify"
    /\ result' = <<>>
    /\ msg' = <<>>
    /\ pc' = "send"
    /\ events' = Append(events, "notify")
    /\ UNCHANGED <<access_token, publish_to_discord, discord_client, court_data,
                   old_data, new_availabilities, last_status,
                   driver, login_session, sent, file, same_mapping>>

\* notify up to its first await (lines 189-215), or all of it when there
\* is nothing new (lines 235-236)
NotifyPrepare ==
    /\ pc = "notify"
    /\ IF new_availabilities # <<>>
       THEN /\ result' = Consolidate(new_availabilities)
            /\ msg' = output_str(result')
            /\ pc' = "send"
            /\ new_availabilities' = new_availabilities
       ELSE /\ pc' = "commit"
            /\ UNCHANGED <<result, msg, new_availabilities>>
    /\ events' = Append(events, "notify")
    /\ UNCHANGED <<access_token, publish_to_discord, discord_client, court_data,
                   old_data, last_status, driver, login_session, sent, file, same_mapping>>

\* a notify whose except block raises again after its short message
NotifySend_reraises ==
    /\ pc = "send"
    /\ \E o1 \in SendOutcomes(publish_to_discord, discord_client) :
         IF o1.delivery # "failed"
         THEN /\ discord_client' = o1.client
              /\ pc' = "commit"
              /\ events' = Append(events, "primary_" \o o1.delivery)
              /\ sent' = sent \o SinkCalls(o1, PrimaryMessage(msg))
         ELSE \E o2 \in SendOutcomes(publish_to_discord, o1.client) :
                /\ discord_client' = o2.client
                /\ pc' = "crashed"
                /\ events' = events \o <<"primary_failed", "fallback_" \o o2.delivery>>
                /\ sent' = sent \o SinkCalls(o1, PrimaryMessage(msg))
                                 \o SinkCalls(o2, FallbackMessage)
    /\ result' = <<>>
    /\ msg' = <<>>
    /\ new_availabilities' = <<>>
    /\ UNCHANGED <<access_token, publish_to_discord, court_data, old_data,
                   last_status, driver, login_session, file, same_mapping>>

\* lines 216-233: send msg; if that raises, send the short message from
\* inside the except block.  The locals of notify and the list of openings
\* are not read again once notify has returned.
NotifySend ==
    /\ pc = "send"
    /\ \E o1 \in SendOutcomes(publish_to_discord, discord_client) :
         IF o1.delivery # "failed"
         THEN /\ discord_client' = o1.client
              /\ pc' = "commit"
              /\ events' = Append(events, "primary_" \o o1.delivery)
              /\ sent' = sent \o SinkCalls(o1, PrimaryMessage(msg))
         ELSE \E o2 \in SendOutcomes(publish_to_discord, o1.client) :
                /\ discord_client' = o2.client
                /\ pc' = IF o2.delivery = "failed" THEN "crashed" ELSE "commit"
                /\ events' = events \o <<"primary_failed", "fallback_" \o o2.delivery>>
                /\ sent' = sent \o SinkCalls(o1, PrimaryMessage(msg))
                                 \o SinkCalls(o2, FallbackMessage)
    /\ result' = <<>>
    /\ msg' = <<>>
    /\ new_availabilities' = <<>>
    /\ UNCHANGED <<access_token, publish_to_discord, court_data, old_data,
                   last_status, driver, login_session, file, same_mapping>>

\* a cycle that goes to sleep without saving the new availabilities
Commit_skipped ==
    /\ pc = "commit"
    /\ pc' = "sleep"
    /\ events' = Append(events, "commit")
    /\ sent' = <<>>
    /\ UNCHANGED <<access_token, publish_to_discord, discord_client, court_data,
                   old_data, new_availabilities, result, msg, last_status,
                   driver, login_session, file, same_mapping>>

\* line 136: old_data names the dict of court_data from here on
Commit ==
    /\ pc = "commit"
    /\ old_data' = court_data
    /\ same_mapping' = TRUE
    /\ pc' = "sleep"
    /\ events' = Append(events, "commit")
    /\ sent' = <<>>
    /\ UNCHANGED <<access_token, publish_to_discord, discord_client, court_data,
                   new_availabilities, result, msg, last_status,
                   driver, login_session, file>>

\* line 140
Sleep ==
    /\ pc = "sleep"
    /\ pc' = "request"
    /\ events' = Append(events, "sleep")
    /\ UNCHANGED <<access_token, publish_to_discord, discord_client, court_data,
                   old_data, new_availabilities, result, msg, last_status,
                   driver, login_session, sent, file, same_mapping>>

\* a cancellation that run swallows: the process ends with no shutdown step
Cancel_ends_run ==
    /\ pc \in {"greet", "send", "sleep"}
    /\ pc' = "exited"
    /\ UNCHANGED <<access_token, publish_to_discord, discord_client, court_data,
                   old_data, new_availabilities, result, msg, last_status, events,
                   driver, login_session, sent, file, same_mapping>>

\* the task is cancelled while it is suspended in an await
Cancel ==
    /\ pc \in {"greet", "send", "sleep"}
    /\ pc' = "cancelled"
    /\ UNCHANGED <<access_token, publish_to_discord, discord_client, court_data,
                   old_data, new_availabilities, result, msg, last_status, events,
                   driver, login_session, sent, file, same_mapping>>

\* The caller of run, whose source is not part of the files modelled here:
\* on cancellation it makes one attempt to send the "stopped running"
\* message, whatever its outcome, releases the authenticator and the
\* client (close), and exits.
Shutdown ==
    /\ pc = "cancelled"
    /\ \E o \in SendOutcomes(publish_to_discord, discord_client) :
         /\ discord_client' = o.client
         /\ events' = Append(events, "stopped_" \o o.delivery)
    /\ driver' = "None"
    /\ pc' = "exited"
    /\ UNCHANGED <<access_token, publish_to_discord, court_data, old_data,
                   new_availabilities, result, msg, last_status,
                   login_session, sent, file, same_mapping>>

Next ==
    \/ Start
    \/ Greet
    \/ RequestAuthExpired
    \/ RequestHttpError
    \/ RequestException
    \/ RequestParse
    \/ CheckForNewOpenings
    \/ NotifyPrepare
    \/ NotifySend
    \/ Commit
    \/ Sleep
    \/ Cancel
    \/ Shutdown

Spec == Init /\ [][Next]_vars

(***************************************************************************)
(* notify on its own: the list of openings is any list of openings with    *)
(* distinct times, in any order, taken from a grid of local times five     *)
(* minutes apart that starts at 11:40 PM of day 0.                         *)
(***************************************************************************)
GridTimes == {23 * 60 + 40 + 5 * i : i \in 0..(NumGridTimes - 1)}

Opening(dt) == <<strftime_TIMESTAMP(dt), <<1>>>>

RECURSIVE OpeningLists(_, _)
OpeningLists(times, n) ==
    IF n = 0 THEN {<<>>}
    ELSE {<<>>} \cup UNION {{<<Opening(t)>> \o rest : rest \in OpeningLists(times \ {t}, n - 1)}
                             : t \in times}

InitNotify ==
    /\ pc = "notify"
    /\ access_token = "token"
    /\ publish_to_discord \in BOOLEAN
    /\ discord_client = FALSE
    /\ court_data = None
    /\ old_data = None
    /\ new_availabilities \in OpeningLists(GridTimes, MaxOpenings)
    /\ result = <<>>
    /\ msg = <<>>
    /\ last_status = 200
    /\ events = <<>>
    /\ driver = "None"
    /\ login_session = "fresh"
    /\ sent = <<>>
    /\ file = None
    /\ same_mapping = FALSE

NextNotify ==
    \/ NotifyPrepare
    \/ NotifySend

SpecNotify == InitNotify /\ [][NextNotify]_vars

(***************************************************************************)
(* main.py: the CourtManager that keeps its snapshot in a file.  It has no *)
(* awaits, so one turn of the loop of check_availability is one step.      *)
(***************************************************************************)
\* check_for_new_openings of main.py, with self.old_data = old,
\* self.court_data = cur and the stored file f (None when there is none):
\* the new old_data, the new file and the list returned
main_check_for_new_openings(old, cur, f) ==
    LET old1 == IF ~f.present THEN cur ELSE old
        f1 == IF ~f.present THEN cur ELSE f
        new == DiffLoop(cur.items, old1.items)
    IN  [old_data |-> old1,
         file |-> IF new # <<>> THEN cur ELSE f1,
         new_availabilities |-> new]

\* staffIds lists of the responses to main.py: court 1, courts 1 and 2
FileStaffIdLists == {<<Tag(3)>>, <<Tag(3), Tag(4)>>}

RECURSIVE FileSlotSeqs(_)
FileSlotSeqs(times) ==
    {<<>>} \cup UNION {{<<s>> \o rest : rest \in FileSlotSeqs(times \ {s.startTime})}
                        : s \in {r \in RawSlots : /\ r.startTime \in times
                                                  /\ r.staffIds \in FileStaffIdLists}}

FileBodies ==
    {[kind |-> "ok", startTimes |-> s] : s \in FileSlotSeqs(RawTimes)}
    \cup {[kind |-> "ok", startTimes |-> <<BadSlot>>],
          [kind |-> "malformed_json", startTimes |-> <<>>]}

\* what the file holds when the program starts: no file, an empty
\* snapshot, or court 1 at the first start time
StoredFiles ==
    {None, Dict(<<>>),
     Dict(<<<<strftime_TIMESTAMP(astimezone(30 * 60 + 45)), <<1>>>>>>)}

InitFile ==
    /\ pc = "construct"
    /\ access_token = "None"
    /\ publish_to_discord = FALSE
    /\ discord_client = FALSE
    /\ court_data = None
    /\ old_data = None
    /\ new_availabilities = <<>>
    /\ result = <<>>
    /\ msg = <<>>
    /\ last_status = 0
    /\ events = <<>>
    /\ driver = "None"
    /\ login_session = "none"
    /\ sent = <<>>
    /\ file \in StoredFiles
    /\ same_mapping = FALSE

\* __init__, lines 139-152: self.old_data = self.read_file(); open raises
\* when there is no file
FileConstruct ==
    /\ pc = "construct"
    /\ IF file.present
       THEN /\ old_data' = file
            /\ pc' = "start"
            /\ events' = <<"read_file">>
       ELSE /\ old_data' = old_data
            /\ pc' = "crashed"
            /\ events' = <<"read_file_error">>
    /\ UNCHANGED <<access_token, publish_to_discord, discord_client, court_data,
                   new_availabilities, result, msg, last_status,
                   driver, login_session, sent, file, same_mapping>>

\* check_availability, lines 179-181: the first token
FileStart ==
    /\ pc = "start"
    /\ \E o \in main_get_access_token(driver) :
         /\ driver' = o.driver
         /\ login_session' = o.session
         /\ IF o.got
            THEN /\ access_token' = "token"
                 /\ pc' = "request"
                 /\ events' = <<"refresh">>
            ELSE /\ access_token' = access_token
                 /\ pc' = "crashed"
                 /\ events' = <<"refresh_error">>
    /\ UNCHANGED <<publish_to_discord, discord_client, court_data, old_data,
                   new_availabilities, result, msg, last_status, sent, file, same_mapping>>

\* lines 185-195, 199: status 401, refresh the token from inside the
\* except clause and continue
FileRequestAuthExpired ==
    /\ pc = "request"
    /\ last_status' = 401
    /\ \E o \in main_get_access_token(driver) :
         /\ driver' = o.driver
         /\ login_session' = o.session
         /\ IF o.got
            THEN /\ access_token' = "token"
                 /\ pc' = "request"
                 /\ events' = <<"request", "refresh">>
            ELSE /\ access_token' = access_token
                 /\ pc' = "crashed"
                 /\ events' = <<"request", "refresh_error">>
    /\ UNCHANGED <<publish_to_discord, discord_client, court_data, old_data,
                   new_availabilities, result, msg, sent, file, same_mapping>>

\* lines 185-192, 196-199: any other error status, 400 among them
FileRequestHttpError ==
    /\ pc = "request"
    /\ \E s \in OtherErrorStatuses \cup {400} : last_status' = s
    /\ pc' = "request"
    /\ events' = <<"request", "http_error">>
    /\ UNCHANGED <<access_token, publish_to_discord, discord_client, court_data,
                   old_data, new_availabilities, result, msg,
                   driver, login_session, sent, file, same_mapping>>

\* lines 185-191, 200-202: the request itself raises
FileRequestException ==
    /\ pc = "request"
    /\ pc' = "request"
    /\ events' = <<"request", "exception">>
    /\ last_status' = 0
    /\ UNCHANGED <<access_token, publish_to_discord, discord_client, court_data,
                   old_data, new_availabilities, result, msg,
                   driver, login_session, sent, file, same_mapping>>

\* lines 185-192, 204-209: a 2xx response; parse_availabilities,
\* check_for_new_openings, notify (which prints and logs) and the sleep
FileCycle ==
    /\ pc = "request"
    /\ last_status' = 200
    /\ \E body \in FileBodies :
         LET p == parse_availabilities(body, court_data)
             d == main_check_for_new_openings(old_data, p.court_data, file)
         IN  /\ court_data' = p.court_data
             /\ IF p.raised
                THEN /\ pc' = "crashed"
                     /\ events' = <<"request", "parse_error">>
                     /\ old_data' = IF same_mapping /\ ~p.rebound
                                    THEN p.court_data ELSE old_data
                     /\ same_mapping' = (same_mapping /\ ~p.rebound)
                     /\ UNCHANGED <<file, new_availabilities>>
                ELSE /\ pc' = "request"
                     /\ old_data' = d.old_data
                     /\ same_mapping' = ~file.present
                     /\ file' = d.file
                     /\ new_availabilities' = d.new_availabilities
                     /\ events' = <<"request", "parse", "diff">>
                                  \o (IF ~file.present \/ d.new_availabilities # <<>>
                                      THEN <<"write_file">> ELSE <<>>)
                                  \o <<"notify", "sleep">>
    /\ UNCHANGED <<access_token, publish_to_discord, discord_client,
                   result, msg, driver, login_session, sent>>

NextFile ==
    \/ FileConstruct
    \/ FileStart
    \/ FileRequestAuthExpired
    \/ FileRequestHttpError
    \/ FileRequestException
    \/ FileCycle

SpecFile == InitFile /\ [][NextFile]_vars

(***************************************************************************)
(* Vocabulary of the properties.                                           *)
(***************************************************************************)
\* the (time, court) pairs of a snapshot
Pairs(d) ==
    UNION {{<<d.items[i][1], c>> : c \in SeqElems(d.items[i][2])} : i \in 1..Len(d.items)}

\* how often the pair (k, c) is reported in a list of openings
Occurrences(avail, k, c) ==
    Cardinality({ij \in UNION {{<<i, j>> : j \in 1..Len(avail[i][2])} : i \in 1..Len(avail)} :
                    avail[ij[1]][1] = k /\ avail[ij[1]][2][ij[2]] = c})

NoDuplicateCourts(d) ==
    \A i \in 1..Len(d.items) :
        Cardinality(SeqElems(d.items[i][2])) = Len(d.items[i][2])

\* cur is old with times or courts added, and nothing taken away
OnlyAdded(old, cur) ==
    /\ old.present
    /\ cur.present
    /\ DictKeys(old.items) \subseteq DictKeys(cur.items)
    /\ Pairs(old) \subseteq Pairs(cur)
    /\ NoDuplicateCourts(cur)

\* the same mapping, whatever the order of the keys
SameSnapshot(a, b) ==
    /\ a.present
    /\ b.present
    /\ DictKeys(a.items) = DictKeys(b.items)
    /\ \A k \in DictKeys(a.items) : DictGet(a.items, k) = DictGet(b.items, k)

CourtsOf(d) == UNION {SeqElems(d.items[i][2]) : i \in 1..Len(d.items)}

\* the timestamps of a list of openings
Timestamps(avail) == {strptime_TIMESTAMP(avail[i][1]) : i \in 1..Len(avail)}

\* t follows its predecessor in ascending order by exactly one interval
Continues(S, t) ==
    /\ (t - INTERVAL) \in S
    /\ ~ \E u \in S : t - INTERVAL < u /\ u < t

RunStarts(S) == {t \in S : ~Continues(S, t)}

\* the last timestamp of the run that starts at s
RECURSIVE RunEnd(_, _)
RunEnd(S, s) ==
    IF (s + INTERVAL) \in S /\ Continues(S, s + INTERVAL)
    THEN RunEnd(S, s + INTERVAL)
    ELSE s

\* one range per maximal run of the ascending timestamps
RunRanges(S) == {<<s, RunEnd(S, s) + INTERVAL>> : s \in RunStarts(S)}

\* every (start, end) of a consolidated result, day after day
RECURSIVE AllPeriods(_)
AllPeriods(res) ==
    IF res = <<>> THEN <<>> ELSE Head(res)[2] \o AllPeriods(Tail(res))

\* t is one of the slots that make up the range p
SlotOf(t, p) == p[1] <= t /\ t < p[2] /\ (t - p[1]) % INTERVAL = 0

HasEvent(e) == e \in SeqElems(events)

SinkCalled ==
    \E e \in SeqElems(events) :
        e \in {"primary_ok", "primary_failed", "fallback_ok", "fallback_failed"}

(***************************************************************************)
(* Properties.                                                             *)
(***************************************************************************)
\* C1: while there is no previous snapshot, the diff of a cycle is empty
\* whatever the current snapshot holds, and the cycle reaches its commit
\* without handing a message to the sink.
C1_FirstCycleSuppression ==
    (~old_data.present /\ pc \in {"notify", "send", "commit"})
        => (new_availabilities = <<>> /\ pc # "send" /\ ~SinkCalled)

C1_Witness ==
    /\ ~old_data.present
    /\ pc = "commit"
    /\ HasEvent("diff")
    /\ Pairs(court_data) # {}

\* C2: a diff of exactly one opening at t is consolidated into exactly one
\* range (t, t + 15 minutes) under the day of t.
C2_SingleOpeningKept ==
    (pc = "send" /\ Len(new_availabilities) = 1)
        => LET t == strptime_TIMESTAMP(new_availabilities[1][1])
           IN  result = <<<<strftime_DATE(t), <<<<t, t + INTERVAL>>>>>>>>

C4_MonotonicOpenings ==
    (pc = "notify" /\ OnlyAdded(old_data, court_data))
        => /\ \A kc \in Pairs(court_data) :
                Occurrences(new_availabilities, kc[1], kc[2])
                    = (IF kc \in Pairs(old_data) THEN 0 ELSE 1)
           /\ \A i \in 1..Len(new_availabilities) :
                \A c \in SeqElems(new_availabilities[i][2]) :
                    <<new_availabilities[i][1], c>> \in Pairs(court_data) \ Pairs(old_data)

\* a new time with a court, and a court added to a time that had one
C4_Witness ==
    /\ pc = "notify"
    /\ OnlyAdded(old_data, court_data)
    /\ \E kc \in Pairs(court_data) : ~DictHas(old_data.items, kc[1])
    /\ \E kc \in Pairs(court_data) \ Pairs(old_data) :
          /\ DictHas(old_data.items, kc[1])
          /\ DictGet(old_data.items, kc[1]) # <<>>

\* C5: when the current snapshot equals the previous one the diff is empty
\* and the cycle sends nothing.
C5_Idempotence ==
    (pc \in {"notify", "send"} /\ SameSnapshot(old_data, court_data))
        => (new_availabilities = <<>> /\ pc # "send")

C5_Witness ==
    /\ pc = "notify"
    /\ SameSnapshot(old_data, court_data)
    /\ Pairs(court_data) # {}

\* C6: no court index of 8 or more is ever in the current snapshot, in the
\* previous snapshot or in a reported opening.
C6_ResourceFiltering ==
    /\ \A c \in CourtsOf(court_data) \cup CourtsOf(old_data) : c < BEACH_COURT_MIN
    /\ \A i \in 1..Len(new_availabilities) :
          \A c \in SeqElems(new_availabilities[i][2]) : c < BEACH_COURT_MIN

\* a time whose only court was a beach court is in both snapshots, with no court
C6_Witness ==
    /\ \E i \in 1..Len(court_data.items) : court_data.items[i][2] = <<>>
    /\ \E i \in 1..Len(old_data.items) : old_data.items[i][2] = <<>>
    /\ new_availabilities # <<>>

\* C7: a response with status 400 or 401 makes the cycle call the token
\* refresh and nothing else: no parse, diff, notification or commit, and
\* old_data and court_data are after the cycle what they were before it.
C7_AuthFailureSkipsCycle ==
    [][(pc = "request" /\ last_status' \in AuthStatuses)
         => /\ old_data' = old_data
            /\ court_data' = court_data
            /\ new_availabilities' = new_availabilities
            /\ discord_client' = discord_client
            /\ events' \in {<<"request", "refresh">>, <<"request", "refresh_error">>}
            /\ pc' \in {"request", "crashed"}]_vars

C7_Witness ==
    /\ pc = "request"
    /\ last_status \in AuthStatuses
    /\ events = <<"request", "refresh">>
    /\ Pairs(old_data) # {}

\* C8: after a cycle that failed with another HTTP status or with an
\* exception of the request, the next request is issued only after the sleep.
C8_WaitBeforeNextRequest ==
    (pc = "request" /\ Len(events) >= 2 /\ events[2] \in {"http_error", "exception"})
        => HasEvent("sleep")

\* C9: a 2xx response whose body cannot be parsed skips the cycle and the
\* loop keeps running with the previous snapshot as it was.
C9_ParseErrorSkipsCycle ==
    (Len(events) >= 2 /\ events[2] = "parse_error") => pc = "request"

\* C10: when the primary send and the fallback send both fail, notify
\* returns and the loop goes on to commit the cycle's snapshot.
C10_NotificationFailureNotFatal ==
    (HasEvent("primary_failed") /\ HasEvent("fallback_failed"))
        => pc \in {"commit", "sleep", "request"}

\* where the event e is in the log of the cycle
EventIndex(e) == CHOOSE i \in 1..Len(events) : events[i] = e

SinkEvents == {"primary_ok", "primary_failed", "fallback_ok", "fallback_failed"}

\* C11: a get_access_token that raises, at startup or in the refresh after
\* a 400/401 response, does not end the poll driver.
C11_TokenFailureNotFatal ==
    HasEvent("refresh_error") => pc # "crashed"

\* C12: once a cycle has committed, old_data is the snapshot parsed in that
\* cycle; every request is issued with old_data equal to the latest parsed
\* snapshot; and the commit comes after the request, the parse, the diff,
\* notify and its sends, and directly before the sleep.
C12_CommitAfterNotify ==
    /\ pc = "request" => old_data = court_data
    /\ HasEvent("commit") =>
          /\ old_data.present
          /\ old_data = court_data
          /\ SubSeq(events, 1, 4) = <<"request", "parse", "diff", "notify">>
          /\ \A i \in 1..Len(events) :
                events[i] \in SinkEvents \cup {"primary_skipped"} => i < EventIndex("commit")
    /\ HasEvent("sleep") =>
          /\ HasEvent("commit")
          /\ EventIndex("sleep") = EventIndex("commit") + 1
    /\ pc = "sleep" => HasEvent("commit") /\ ~HasEvent("sleep")

C12_Witness ==
    /\ pc = "request"
    /\ HasEvent("sleep")
    /\ HasEvent("primary_ok")
    /\ Pairs(old_data) # {}

\* C13: every range of the consolidated result is under the day label of
\* its own start, the last window included.
C13_RangeUnderOwnDay ==
    pc = "send" =>
        \A i \in 1..Len(result) :
            \A j \in 1..Len(result[i][2]) :
                strftime_DATE(result[i][2][j][1]) = result[i][1]

\* C14: in the message, a day with three or more ranges is the collapsed
\* line without times, and a day with one or two ranges lists each of its
\* ranges in order.
C14_DayCapRendering ==
    pc = "send" =>
        /\ Len(msg) = Len(result)
        /\ \A i \in 1..Len(result) :
              LET periods == result[i][2]
              IN  /\ msg[i].day = result[i][1]
                  /\ Len(periods) >= 3 => (msg[i].lots /\ msg[i].times = <<>>)
                  /\ Len(periods) \in {1, 2} =>
                        /\ ~msg[i].lots
                        /\ Len(msg[i].times) = Len(periods)
                        /\ \A j \in 1..Len(periods) :
                              msg[i].times[j] = <<time_fmt(periods[j][1]),
                                                  time_fmt(periods[j][2])>>

\* a collapsed day of exactly three ranges
C14_Witness ==
    /\ pc = "send"
    /\ \E i \in 1..Len(result) : Len(result[i][2]) = 3 /\ msg[i].lots

\* C15: notify goes on to its send only with an opening, and a cycle whose
\* diff is empty has handed nothing to the sink when notify has returned.
C15_NoOpeningsNoMessage ==
    /\ pc = "send" => new_availabilities # <<>>
    /\ (pc = "commit" /\ check_for_new_openings(old_data, court_data) = <<>>)
          => (sent = <<>> /\ ~SinkCalled /\ ~HasEvent("primary_skipped"))

C15_Witness ==
    /\ pc = "commit"
    /\ publish_to_discord
    /\ old_data.present
    /\ Pairs(court_data) # {}
    /\ check_for_new_openings(old_data, court_data) = <<>>
    /\ HasEvent("notify")

StoppedEvents == {"stopped_ok", "stopped_failed", "stopped_skipped"}

C19_OtherErrorFrame ==
    [][(pc = "request" /\ (last_status' \in OtherErrorStatuses \/ last_status' = 0))
         => /\ access_token' = access_token
            /\ old_data' = old_data
            /\ court_data' = court_data
            /\ driver' = driver
            /\ login_session' = login_session
            /\ discord_client' = discord_client
            /\ sent' = sent
            /\ events' \in {<<"request", "http_error">>, <<"request", "exception">>}
            /\ pc' = "request"]_vars

C19_Witness ==
    /\ pc = "request"
    /\ last_status \in OtherErrorStatuses
    /\ events = <<"request", "http_error">>
    /\ access_token = "token"
    /\ Pairs(old_data) # {}

\* the calls of send in the log of the cycle
SendEvents ==
    {"primary_ok", "primary_failed", "primary_skipped",
     "fallback_ok", "fallback_failed", "fallback_skipped"}

\* C20: in a cycle whose primary send failed and whose fallback send went
\* through, send was called twice and no more, the second time with the
\* fixed short message; notify returned, and the cycle commits court_data
\* as old_data.
C20_FallbackThenCommit ==
    (HasEvent("primary_failed") /\ HasEvent("fallback_ok")) =>
        /\ Cardinality({i \in 1..Len(events) : events[i] \in SendEvents}) = 2
        /\ EventIndex("fallback_ok") = EventIndex("primary_failed") + 1
        /\ pc \in {"commit", "sleep", "request", "cancelled", "exited"}
        /\ pc = "commit" =>
             /\ sent # <<>>
             /\ Len(sent) <= 2
             /\ sent[Len(sent)] = [message |-> FallbackMessage, delivered |-> TRUE]
             /\ Len(sent) = 2 =>
                  /\ sent[1].message.kind = "primary"
                  /\ ~sent[1].delivered
        /\ pc # "commit" => (HasEvent("commit") /\ SameSnapshot(old_data, court_data))

C20_Witness ==
    /\ HasEvent("primary_failed")
    /\ HasEvent("fallback_ok")
    /\ HasEvent("commit")
    /\ Pairs(old_data) # {}

\* C17: no call of get_access_token of either LoginManager runs its login
\* steps on a browser session that an earlier call has quit, and no call
\* leaves a session open.
C17_SessionsFreshAndQuit ==
    /\ login_session # "stale"
    /\ driver # "live"

\* C18: with no stored file the CourtManager of main.py is constructed
\* without raising, so that its first cycle can write the baseline.
C18_ConstructsWithoutFile ==
    ~(~file.present /\ pc = "crashed" /\ events = <<"read_file_error">>)

\* C21: old_data changes only by the commit, which makes it court_data;
\* the parse of the next response writes to a dict of its own, and the
\* diff and notify write to neither, so that a snapshot, once committed,
\* stays as it was while the next one is built.
C21_CommittedSnapshotFrozen ==
    [][old_data' # old_data
         => /\ pc = "commit"
            /\ pc' = "sleep"
            /\ old_data' = court_data
            /\ same_mapping']_vars

\* a later response has been parsed into another snapshot than the committed one
C21_Witness ==
    /\ pc = "diff"
    /\ events = <<"request", "parse">>
    /\ Pairs(old_data) # {}
    /\ ~SameSnapshot(old_data, court_data)
    /\ ~same_mapping

\* C22: in the loop of main.py, an opening reported by one successful
\* cycle whose time is in the snapshot of the next successful cycle with
\* the same courts is not in the list that cycle reports.
C22_FileNoRepeatedOpening ==
    [][(pc = "request" /\ pc' = "request" /\ last_status' = 200)
         => \A i \in 1..Len(new_availabilities) :
              LET court_time == new_availabilities[i][1]
              IN  (/\ DictHas(court_data'.items, court_time)
                   /\ DictGet(court_data'.items, court_time)
                        = DictGet(court_data.items, court_time))
                  => \A j \in 1..Len(new_availabilities') :
                        new_availabilities'[j][1] # court_time]_vars

\* C23: every opening that check_for_new_openings returns names at least
\* one court, so that a time at which only beach courts are free is no
\* opening and starts no notification.
C23_OpeningsCarryCourts ==
    \A i \in 1..Len(new_availabilities) : new_availabilities[i][2] # <<>>

====
